---------------------------- MODULE Spec2Model ----------------------------
(***************************************************************************)
(* LifeLine (Django blood-donation application): the eligibility and       *)
(* matching predicates of users/models.py and the handlers of              *)
(* users/views.py that read and write the four tables.                     *)
(*                                                                         *)
(* Python values are tagged records, so that None, False, 0 and '' stay    *)
(* distinct results and truthiness is computed as Python computes it.      *)
(* A raised exception is the value Raise(kind); it propagates through      *)
(* every Python operator below.                                            *)
(***************************************************************************)
EXTENDS Integers, Sequences, FiniteSets, Bags, TLC

VARIABLES
    now,        \* timezone.now(): the current datetime
    arg_user,   \* the `self` / `user` argument the last predicate call was given
    arg_request,\* the `self` request the last predicate call was given
    op,         \* the last operation applied
    ret,        \* what it returned
    users,      \* table users_user: pk -> row
    requests,   \* table users_blood_request: pk -> row
    responses,  \* table users_blood_request_response: set of rows
    profiles,   \* table users_user_profile: set of rows
    request_seq,\* how many rows users_blood_request was ever given (its pk sequence)
    session,    \* client -> pk of request.user in that client's session (0: anonymous)
    inflight,   \* bag of respond requests that passed dispatch and have not saved yet
    registering \* bag of registrations whose form was valid and that have not saved yet

vars == <<now, arg_user, arg_request, op, ret, users, requests, responses,
          profiles, request_seq, session, inflight, registering>>

-----------------------------------------------------------------------------
(* Python values *)

None == [t |-> "None"]
PyBool(b) == [t |-> "bool", v |-> b]
PyFalse == PyBool(FALSE)
PyTrue == PyBool(TRUE)
PyInt(n) == [t |-> "int", v |-> n]
PyStr(s) == [t |-> "str", v |-> s]
Raise(kind) == [t |-> "raise", v |-> kind]
PyDate(y, m, d) == [t |-> "date", year |-> y, month |-> m, day |-> d]
PyDateTime(y, m, d, h) ==
    [t |-> "datetime", year |-> y, month |-> m, day |-> d, hour |-> h]

IsRaise(x) == x.t = "raise"

\* bool(x): None, False, 0 and '' are falsy; dates and model instances are truthy
Truthy(x) ==
    CASE x.t = "None" -> FALSE
      [] x.t = "bool" -> x.v
      [] x.t = "int" -> x.v # 0
      [] x.t = "str" -> x.v # ""
      [] OTHER -> TRUE

\* a and b: a when a is falsy, else b; an exception in a is the result
PyAnd(a, b) == IF IsRaise(a) THEN a ELSE IF Truthy(a) THEN b ELSE a

\* not a
PyNot(a) == IF IsRaise(a) THEN a ELSE PyBool(~Truthy(a))

\* a >= n for a number a; None >= n raises TypeError
PyGe(a, n) == IF a.t = "int" THEN PyBool(a.v >= n) ELSE Raise("TypeError")

-----------------------------------------------------------------------------
(* datetime.date and datetime.datetime *)

is_leap(y) == y % 4 = 0 /\ (y % 100 # 0 \/ y % 400 = 0)

days_before_year(y) ==
    LET p == y - 1 IN p * 365 + (p \div 4) - (p \div 100) + (p \div 400)

DaysBeforeMonth == <<0, 31, 59, 90, 120, 151, 181, 212, 243, 273, 304, 334>>

days_before_month(y, m) ==
    DaysBeforeMonth[m] + (IF m > 2 /\ is_leap(y) THEN 1 ELSE 0)

\* date.toordinal()
toordinal(d) == days_before_year(d.year) + days_before_month(d.year, d.month) + d.day

\* (a - b).days for two dates
days_between(a, b) == toordinal(a) - toordinal(b)

\* datetime.date()
date_of(dt) == PyDate(dt.year, dt.month, dt.day)

\* a > b for two datetimes
datetime_gt(a, b) ==
    \/ toordinal(a) > toordinal(b)
    \/ toordinal(a) = toordinal(b) /\ a.hour > b.hour

\* (a.month, a.day) < (b.month, b.day): tuple comparison
month_day_lt(a, b) == a.month < b.month \/ (a.month = b.month /\ a.day < b.day)

-----------------------------------------------------------------------------
(* users/models.py: User *)

MinAge == 18
MaxAge == 65
MinWeight == 50
MinDaysBetweenDonations == 90

\* mutant of can_donate: the cooldown compared with > instead of >=
can_donate_strict(self, t) ==
    IF ~self.is_donor \/ ~self.is_available_for_donation THEN PyFalse
    ELSE IF Truthy(self.last_donation_date)
         THEN PyBool(days_between(date_of(t), self.last_donation_date)
                     > MinDaysBetweenDonations)
         ELSE PyTrue

\* User.can_donate
can_donate(self, t) ==
    IF ~self.is_donor \/ ~self.is_available_for_donation THEN PyFalse
    ELSE IF Truthy(self.last_donation_date)
         THEN LET days_since_last_donation ==
                      days_between(date_of(t), self.last_donation_date)
              IN  PyBool(days_since_last_donation >= MinDaysBetweenDonations)
         ELSE PyTrue

\* mutant of get_age: the birthday itself still counted as "before the birthday"
get_age_day_late(self, t) ==
    IF Truthy(self.date_of_birth)
    THEN LET today == date_of(t)
             dob == self.date_of_birth
         IN  PyInt(today.year - dob.year
                   - (IF ~month_day_lt(dob, today) THEN 1 ELSE 0))
    ELSE None

\* User.get_age
get_age(self, t) ==
    IF Truthy(self.date_of_birth)
    THEN LET today == date_of(t)
             dob == self.date_of_birth
         IN  PyInt(today.year - dob.year
                   - (IF month_day_lt(today, dob) THEN 1 ELSE 0))
    ELSE None

\* mutant of is_eligible_donor: weight > 50, as the comment above the return says
is_eligible_donor_over50(self, t) ==
    LET age == get_age(self, t) IN
    IF ~Truthy(age) THEN PyFalse
    ELSE PyAnd(PyBool(MinAge <= age.v /\ age.v <= MaxAge),
         PyAnd(self.weight,
         PyAnd(PyGe(self.weight, MinWeight + 1),
         PyAnd(PyStr(self.blood_group),
               can_donate(self, t)))))

\* mutant of is_eligible_donor: the weight compared without the `self.weight and` guard
is_eligible_donor_unguarded(self, t) ==
    LET age == get_age(self, t) IN
    IF ~Truthy(age) THEN PyFalse
    ELSE PyAnd(PyBool(MinAge <= age.v /\ age.v <= MaxAge),
         PyAnd(PyGe(self.weight, MinWeight),
         PyAnd(PyStr(self.blood_group),
               can_donate(self, t))))

\* User.is_eligible_donor
is_eligible_donor(self, t) ==
    LET age == get_age(self, t) IN
    IF ~Truthy(age) THEN PyFalse
    ELSE PyAnd(PyBool(MinAge <= age.v /\ age.v <= MaxAge),
         PyAnd(self.weight,
         PyAnd(PyGe(self.weight, MinWeight),
         PyAnd(PyStr(self.blood_group),
               can_donate(self, t)))))

-----------------------------------------------------------------------------
(* users/models.py: BloodRequest *)

AnonymousUser == [t |-> "AnonymousUser"]

\* user.is_authenticated: True on a User, False on AnonymousUser
is_authenticated(user) == user.t = "User"

\* mutant of is_expired: expired already at needed_by_date
is_expired_at_deadline(self, t) ==
    IF self.needed_by_date = None THEN PyFalse
    ELSE PyBool(~datetime_gt(self.needed_by_date, t))

\* BloodRequest.is_expired
is_expired(self, t) ==
    IF self.needed_by_date = None THEN PyFalse
    ELSE PyBool(datetime_gt(t, self.needed_by_date))

\* mutant of can_accept: the requester may accept the own request
can_accept_own(self, user, t) ==
    IF ~Truthy(user) \/ ~is_authenticated(user) THEN PyFalse
    ELSE PyAnd(is_eligible_donor(user, t),
         PyAnd(PyBool(user.blood_group = self.blood_group_needed),
         PyAnd(PyBool(self.status = "ACTIVE"),
               PyNot(is_expired(self, t)))))

\* mutant of can_accept: the status is not looked at
can_accept_any_status(self, user, t) ==
    IF ~Truthy(user) \/ ~is_authenticated(user) THEN PyFalse
    ELSE PyAnd(PyBool(user.id # self.requester),
         PyAnd(is_eligible_donor(user, t),
         PyAnd(PyBool(user.blood_group = self.blood_group_needed),
               PyNot(is_expired(self, t)))))

\* BloodRequest.can_accept
can_accept(self, user, t) ==
    IF ~Truthy(user) \/ ~is_authenticated(user) THEN PyFalse
    ELSE PyAnd(PyBool(user.id # self.requester),
         PyAnd(is_eligible_donor(user, t),
         PyAnd(PyBool(user.blood_group = self.blood_group_needed),
         PyAnd(PyBool(self.status = "ACTIVE"),
               PyNot(is_expired(self, t))))))

\* mutant of get_compatible_donors: without .exclude(id=self.requester.id)
get_compatible_donors_with_requester(self, table) ==
    { pk \in DOMAIN table :
        /\ table[pk].blood_group = self.blood_group_needed
        /\ table[pk].is_donor
        /\ table[pk].is_available_for_donation
        /\ table[pk].is_email_verified }

\* BloodRequest.get_compatible_donors: the pks of the rows of `table` it returns
get_compatible_donors(self, table) ==
    { pk \in DOMAIN table :
        /\ table[pk].blood_group = self.blood_group_needed
        /\ table[pk].is_donor
        /\ table[pk].is_available_for_donation
        /\ table[pk].is_email_verified } \ {self.requester}

-----------------------------------------------------------------------------
(* Inputs of the predicates: dates and attribute values around every bound  *)

STATUS_CHOICES == {"ACTIVE", "FULFILLED", "CANCELLED", "EXPIRED"}

Nows == { PyDateTime(2024, 3, 1, 12), PyDateTime(2024, 2, 29, 12),
          PyDateTime(2023, 3, 1, 12) }

\* the days the clock is read on, and the day before each
Days == { date_of(t) : t \in Nows } \cup { PyDate(2024, 2, 28), PyDate(2023, 2, 28) }

BirthDates == { None, PyDate(1994, 3, 1), PyDate(2006, 3, 1), PyDate(1958, 3, 1),
                PyDate(2000, 2, 29), PyDate(2024, 3, 1) }

\* User.weight is a float of kilograms; whole kilograms on both sides of 50
Weights == { None, PyInt(0), PyInt(49), PyInt(50), PyInt(60) }

BloodGroups == { "", "O+", "A-" }

DonationDates == { None, PyDate(2023, 12, 2), PyDate(2023, 12, 3) }

NeededByDates == { None, PyDateTime(2024, 3, 1, 11), PyDateTime(2024, 3, 1, 12),
                   PyDateTime(2024, 3, 2, 12) }

\* a User instance with the attributes the predicates read
UserInstances ==
    [ t : {"User"}, id : {1, 2}, date_of_birth : BirthDates, weight : Weights,
      blood_group : BloodGroups, is_donor : BOOLEAN,
      is_available_for_donation : BOOLEAN, last_donation_date : DonationDates ]

\* a BloodRequest instance of requester 1
RequestInstances ==
    [ id : {1}, requester : {1}, blood_group_needed : {"O+"},
      status : STATUS_CHOICES, needed_by_date : NeededByDates, is_public : {TRUE} ]

EmptyTables ==
    /\ users = << >>
    /\ requests = << >>
    /\ responses = {}
    /\ profiles = {}
    /\ request_seq = 0

NoTraffic ==
    /\ session = << >>
    /\ inflight = EmptyBag
    /\ registering = EmptyBag

tables == <<users, requests, responses, profiles, request_seq, session, inflight,
            registering>>

PureInit ==
    /\ now \in Nows
    /\ arg_user \in UserInstances \cup {None, AnonymousUser}
    /\ arg_request \in RequestInstances
    /\ op = "none"
    /\ ret = None
    /\ EmptyTables
    /\ NoTraffic

CallGetAge ==
    /\ arg_user.t = "User"
    /\ op' = "get_age"
    /\ ret' = get_age(arg_user, now)
    /\ UNCHANGED <<now, arg_user, arg_request, tables>>

CallCanDonate ==
    /\ arg_user.t = "User"
    /\ op' = "can_donate"
    /\ ret' = can_donate(arg_user, now)
    /\ UNCHANGED <<now, arg_user, arg_request, tables>>

CallIsEligibleDonor ==
    /\ arg_user.t = "User"
    /\ op' = "is_eligible_donor"
    /\ ret' = is_eligible_donor(arg_user, now)
    /\ UNCHANGED <<now, arg_user, arg_request, tables>>

\* mutant of CallIsExpired: an expired request is marked EXPIRED when asked
CallIsExpired_marking ==
    /\ op' = "is_expired"
    /\ ret' = is_expired(arg_request, now)
    /\ arg_request' = IF Truthy(is_expired(arg_request, now))
                      THEN [arg_request EXCEPT !.status = "EXPIRED"]
                      ELSE arg_request
    /\ requests' = [ pk \in DOMAIN requests |->
                       IF pk = arg_request.id THEN arg_request' ELSE requests[pk] ]
    /\ UNCHANGED <<now, arg_user, users, responses, profiles, request_seq,
                   session, inflight, registering>>

CallIsExpired ==
    /\ op' = "is_expired"
    /\ ret' = is_expired(arg_request, now)
    /\ UNCHANGED <<now, arg_user, arg_request, tables>>

CallCanAccept ==
    /\ op' = "can_accept"
    /\ ret' = can_accept(arg_request, arg_user, now)
    /\ UNCHANGED <<now, arg_user, arg_request, tables>>

PureNext ==
    \/ CallGetAge
    \/ CallCanDonate
    \/ CallIsEligibleDonor
    \/ CallIsExpired
    \/ CallCanAccept

PureSpec == PureInit /\ [][PureNext]_vars

-----------------------------------------------------------------------------
(* Properties of the predicates, under PureSpec *)

IsUser(u) == u.t = "User"

\* the user and request of the example of the specification, one day before
\* the request is needed
ExampleCase ==
    /\ now = PyDateTime(2024, 3, 1, 12)
    /\ IsUser(arg_user)
    /\ arg_user.id # arg_request.requester
    /\ arg_user.date_of_birth = PyDate(1994, 3, 1)
    /\ arg_user.weight = PyInt(60)
    /\ arg_user.blood_group = "O+"
    /\ arg_user.is_donor
    /\ arg_user.is_available_for_donation
    /\ arg_user.last_donation_date = None
    /\ arg_request.blood_group_needed = "O+"
    /\ arg_request.status = "ACTIVE"
    /\ arg_request.needed_by_date = PyDateTime(2024, 3, 2, 12)

\* C1: can_accept(request, user) is True exactly when the user is
\* authenticated, is not the requester, is an eligible donor, has the blood
\* group the request needs, the request is ACTIVE and it is not expired; any
\* other result is falsy. The example user (aged 30, 60 kg, O+, donor,
\* available, no earlier donation) can accept another user's ACTIVE O+ request
\* needed one day from now.
C1_CanAcceptIff ==
    op = "can_accept" =>
        /\ (ret = PyTrue) <=>
              /\ IsUser(arg_user)
              /\ is_authenticated(arg_user)
              /\ arg_user.id # arg_request.requester
              /\ Truthy(is_eligible_donor(arg_user, now))
              /\ arg_user.blood_group = arg_request.blood_group_needed
              /\ arg_request.status = "ACTIVE"
              /\ ~Truthy(is_expired(arg_request, now))
        /\ (ret # PyTrue => ~Truthy(ret))
        /\ (ExampleCase => ret = PyTrue)

C1_Witness ==
    /\ op = "can_accept"
    /\ ExampleCase
    /\ get_age(arg_user, now) = PyInt(30)
    /\ days_between(date_of(arg_request.needed_by_date), date_of(now)) = 1
    /\ ret = PyTrue

\* C2: a request that is not ACTIVE, or that is expired (now later than
\* needed_by_date), is accepted by nobody: can_accept is falsy whatever the
\* user's blood group and eligibility.
C2_ClosedRequestNotAccepted ==
    (/\ op = "can_accept"
     /\ \/ arg_request.status # "ACTIVE"
        \/ /\ arg_request.needed_by_date # None
           /\ datetime_gt(now, arg_request.needed_by_date))
    => ~Truthy(ret)

\* a user who could accept, were the request still ACTIVE
C2_Witness ==
    /\ op = "can_accept"
    /\ IsUser(arg_user)
    /\ arg_user.id # arg_request.requester
    /\ Truthy(is_eligible_donor(arg_user, now))
    /\ arg_user.blood_group = arg_request.blood_group_needed
    /\ arg_request.status = "FULFILLED"
    /\ arg_request.needed_by_date = PyDateTime(2024, 3, 2, 12)
    /\ now = PyDateTime(2024, 3, 1, 12)
    /\ ret = PyFalse

C4_CanDonate ==
    op = "can_donate" =>
        LET ldd == arg_user.last_donation_date IN
        /\ ret \in {PyTrue, PyFalse}
        /\ (~arg_user.is_donor \/ ~arg_user.is_available_for_donation
              => ret = PyFalse)
        /\ (arg_user.is_donor /\ arg_user.is_available_for_donation =>
              /\ (ldd = None => ret = PyTrue)
              /\ (ldd # None =>
                    (ret = PyTrue <=> toordinal(date_of(now)) - toordinal(ldd) >= 90)))

\* exactly 90 days after the last donation
C4_Witness ==
    /\ op = "can_donate"
    /\ arg_user.is_donor /\ arg_user.is_available_for_donation
    /\ arg_user.last_donation_date # None
    /\ toordinal(date_of(now)) - toordinal(arg_user.last_donation_date) = 90
    /\ ret = PyTrue

\* C7: is_expired is True exactly when now is strictly later than
\* needed_by_date; at now = needed_by_date the request is not expired.
C7_ExpiredIffLater ==
    op = "is_expired" /\ arg_request.needed_by_date # None =>
        LET nbd == arg_request.needed_by_date
            later == \/ toordinal(now) > toordinal(nbd)
                     \/ toordinal(now) = toordinal(nbd) /\ now.hour > nbd.hour
        IN  /\ ret = PyBool(later)
            /\ (now = nbd => ret = PyFalse)

C7_Witness ==
    /\ op = "is_expired"
    /\ arg_request.needed_by_date = now
    /\ ret = PyFalse

\* the completed years at today, as the claim writes them
CompletedYears(dob, today) ==
    today.year - dob.year
    - (IF \/ today.month < dob.month
          \/ today.month = dob.month /\ today.day < dob.day
       THEN 1 ELSE 0)

\* today is the anniversary of the date of birth
IsBirthday(dob, today) == today.month = dob.month /\ today.day = dob.day

\* someone born on 29 February has no anniversary in a year that is not a leap
\* year; the first day that is not before it is 1 March
IsLeaplingFirstOfMarch(dob, today) ==
    /\ dob.month = 2 /\ dob.day = 29
    /\ today.month = 3 /\ today.day = 1
    /\ ~is_leap(today.year)

\* the age at today is one more than the age at the day before
AgeGrewSince(yesterday) ==
    get_age(arg_user, now).v = get_age(arg_user, PyDateTime(yesterday.year,
                                   yesterday.month, yesterday.day, 0)).v + 1

\* C8 as stated: get_age is None without a date of birth, else the completed
\* years at today, and the age grows by one exactly on the birthday (and on no
\* other day).
C8_AgeGrowsOnlyOnBirthday ==
    op = "get_age" =>
        LET dob == arg_user.date_of_birth
            today == date_of(now)
        IN  /\ (dob = None => ret = None)
            /\ (dob # None =>
                  /\ ret = PyInt(CompletedYears(dob, today))
                  /\ \A y \in Days :
                        toordinal(today) = toordinal(y) + 1 =>
                           (AgeGrewSince(y) <=> IsBirthday(dob, today)))

\* C8, amended: get_age is None without a date of birth, else the completed
\* years at today; the age grows by one on the birthday, and for a date of
\* birth of 29 February, in a year that is not a leap year, on 1 March; it
\* grows on no other day.
C8_AgeGrowsOnBirthdayOrFirstOfMarch ==
    op = "get_age" =>
        LET dob == arg_user.date_of_birth
            today == date_of(now)
        IN  /\ (dob = None => ret = None)
            /\ (dob # None =>
                  /\ ret = PyInt(CompletedYears(dob, today))
                  /\ \A y \in Days :
                        toordinal(today) = toordinal(y) + 1 =>
                           (AgeGrewSince(y) <=>
                              \/ IsBirthday(dob, today)
                              \/ IsLeaplingFirstOfMarch(dob, today)))

\* the 18th birthday: 17 the day before
C8_Witness ==
    /\ op = "get_age"
    /\ arg_user.date_of_birth = PyDate(2006, 3, 1)
    /\ now = PyDateTime(2024, 3, 1, 12)
    /\ toordinal(date_of(now)) = toordinal(PyDate(2024, 2, 29)) + 1
    /\ get_age(arg_user, PyDateTime(2024, 2, 29, 12)) = PyInt(17)
    /\ ret = PyInt(18)

PredicateOps == {"get_age", "can_donate", "is_eligible_donor", "is_expired", "can_accept"}

\* an attribute the operation reads is missing
ReadsMissingAttribute ==
    LET u == arg_user
        noDob == IsUser(u) /\ u.date_of_birth = None
        noWeight == IsUser(u) /\ u.weight = None
        noGroup == IsUser(u) /\ u.blood_group = ""
        noDonation == IsUser(u) /\ u.last_donation_date = None
        noNeededBy == arg_request.needed_by_date = None
    IN  CASE op = "get_age" -> noDob
          [] op = "can_donate" -> noDonation
          [] op = "is_eligible_donor" -> noDob \/ noWeight \/ noGroup \/ noDonation
          [] op = "is_expired" -> noNeededBy
          [] op = "can_accept" ->
                u = None \/ noDob \/ noWeight \/ noGroup \/ noDonation \/ noNeededBy
          [] OTHER -> FALSE

\* C9 as stated: a user without date of birth, weight or blood group is not
\* an eligible donor and can accept nothing; and each predicate returns false
\* or None, without raising, whenever an attribute it reads is missing.
C9_FalseOnAnyMissingAttribute ==
    /\ (/\ op \in {"is_eligible_donor", "can_accept"}
        /\ IsUser(arg_user)
        /\ \/ arg_user.date_of_birth = None
           \/ arg_user.weight = None
           \/ arg_user.blood_group = ""
        => ~Truthy(ret))
    /\ (op \in PredicateOps /\ ReadsMissingAttribute => ~Truthy(ret))

\* C9, amended: no predicate raises; without date of birth, weight or blood
\* group is_eligible_donor and can_accept are falsy; get_age is None without a
\* date of birth; can_accept is False for a missing or anonymous user. A
\* missing last donation date or needed_by_date is not a failure: is_expired is
\* False without needed_by_date and can_donate is True for an available donor
\* without last donation date, so the predicates that use them can be True.
C9_NoRaiseAndClosedOnIdentityData ==
    /\ (op \in PredicateOps => ~IsRaise(ret))
    /\ (/\ op \in {"is_eligible_donor", "can_accept"}
        /\ IsUser(arg_user)
        /\ \/ arg_user.date_of_birth = None
           \/ arg_user.weight = None
           \/ arg_user.blood_group = ""
        => ~Truthy(ret))
    /\ (op = "get_age" /\ arg_user.date_of_birth = None => ret = None)
    /\ (op = "can_accept" /\ ~IsUser(arg_user) => ret = PyFalse)
    /\ (op = "is_expired" /\ arg_request.needed_by_date = None => ret = PyFalse)
    /\ (/\ op = "can_donate"
        /\ arg_user.last_donation_date = None
        /\ arg_user.is_donor /\ arg_user.is_available_for_donation
        => ret = PyTrue)

\* the weight is missing and everything else would make the user eligible
C9_Witness ==
    /\ op = "is_eligible_donor"
    /\ arg_user.weight = None
    /\ get_age(arg_user, now) = PyInt(30)
    /\ arg_user.blood_group = "O+"
    /\ can_donate(arg_user, now) = PyTrue
    /\ ret = None

-----------------------------------------------------------------------------
(* get_compatible_donors over every state of a small user table *)

TableUsers == 2

\* rows of users_user: the columns get_compatible_donors filters on, and the
\* attributes is_eligible_donor reads
TableRows ==
    [ t : {"User"}, date_of_birth : {PyDate(1994, 3, 1)},
      weight : {PyInt(49), PyInt(60)}, blood_group : {"O+", "A-"},
      is_donor : BOOLEAN, is_available_for_donation : BOOLEAN,
      is_email_verified : BOOLEAN, last_donation_date : {None} ]

WithId(row, pk) ==
    [ f \in DOMAIN row \cup {"id"} |-> IF f = "id" THEN pk ELSE row[f] ]

TableInit ==
    /\ now = PyDateTime(2024, 3, 1, 12)
    /\ \E rows \in [1..TableUsers -> TableRows] :
          users = [pk \in 1..TableUsers |-> WithId(rows[pk], pk)]
    /\ \E r \in 1..TableUsers :
          arg_request = [ id |-> 1, requester |-> r, blood_group_needed |-> "O+",
                          status |-> "ACTIVE",
                          needed_by_date |-> PyDateTime(2024, 3, 2, 12),
                          is_public |-> TRUE ]
    /\ arg_user = None
    /\ op = "none"
    /\ ret = {}
    /\ requests = << >>
    /\ responses = {}
    /\ profiles = {}
    /\ request_seq = 0
    /\ NoTraffic

CallGetCompatibleDonors ==
    /\ op' = "get_compatible_donors"
    /\ ret' = get_compatible_donors(arg_request, users)
    /\ UNCHANGED <<now, arg_user, arg_request, tables>>

TableNext == CallGetCompatibleDonors

TableSpec == TableInit /\ [][TableNext]_vars

\* C5: get_compatible_donors returns exactly the users with the needed blood
\* group who are donors, available and email-verified, minus the requester;
\* the requester is never returned, even when all four conditions hold for
\* the requester.
C5_CompatibleDonorsExactly ==
    op = "get_compatible_donors" =>
        /\ \A pk \in DOMAIN users :
              pk \in ret <=>
                 /\ users[pk].blood_group = arg_request.blood_group_needed
                 /\ users[pk].is_donor
                 /\ users[pk].is_available_for_donation
                 /\ users[pk].is_email_verified
                 /\ pk # arg_request.requester
        /\ ret \subseteq DOMAIN users
        /\ arg_request.requester \notin ret

\* the requester meets all four conditions, and so does the user returned
C5_Witness ==
    /\ op = "get_compatible_donors"
    /\ LET r == users[arg_request.requester] IN
          /\ r.blood_group = arg_request.blood_group_needed
          /\ r.is_donor /\ r.is_available_for_donation /\ r.is_email_verified
    /\ ret # {}
    /\ arg_request.requester \notin ret

\* C6: every user get_compatible_donors returns is an eligible donor
\* (is_eligible_donor: age 18 to 65, weight at least 50, blood group set,
\* 90 days since the last donation) with the needed blood group.
C6_CompatibleDonorsAreEligible ==
    op = "get_compatible_donors" =>
        \A pk \in ret :
            /\ Truthy(is_eligible_donor(users[pk], now))
            /\ users[pk].blood_group = arg_request.blood_group_needed

-----------------------------------------------------------------------------
(* users/views.py: the handlers, over the tables *)

MaxRequests == 1
MaxInflight == 2

Clients == {"c1"}
Emails == {"a@x.org", "b@x.org"}
FirstNames == {"Ann", "Bob"}
RESPONSE_CHOICES == {"ACCEPTED", "DECLINED", "COMPLETED"}

\* the instants the clock is read at
Timeline == << PyDateTime(2024, 3, 1, 12), PyDateTime(2024, 3, 2, 13) >>

\* a needed_by_date between the two instants
Deadline == PyDateTime(2024, 3, 2, 12)

\* registrations the form accepts when email and first name are free (two of
\* them with the same email, two with the same first name), one by a
\* 14-year-old and one without blood group
RegistrationInputs ==
    [ email : {"a@x.org"}, first_name : FirstNames, password : {"pw"},
      date_of_birth : {PyDate(1994, 3, 1)},
      blood_group : {"O+"}, weight : {PyInt(60)} ]
    \cup
    [ email : {"b@x.org"}, first_name : {"Bob"}, password : {"pw"},
      date_of_birth : {PyDate(1994, 3, 1)},
      blood_group : {"O+"}, weight : {PyInt(60)} ]
    \cup
    [ email : {"a@x.org"}, first_name : {"Ann"}, password : {"pw"},
      date_of_birth : {PyDate(2010, 3, 1)},
      blood_group : {"O+"}, weight : {None} ]
    \cup
    [ email : {"a@x.org"}, first_name : {"Ann"}, password : {"pw"},
      date_of_birth : {PyDate(1994, 3, 1)},
      blood_group : {""}, weight : {None} ]

\* POST data of the blood request forms; `status` is a key a client may add,
\* for which BloodRequestForm has no field
RequestInputs ==
    [ blood_group_needed : {"O+", "A-"},
      needed_by_date : {Deadline},
      is_public : BOOLEAN,
      status : {"FULFILLED"} ]
    \cup
    [ blood_group_needed : {"O+"},
      needed_by_date : {Timeline[1]},
      is_public : {TRUE},
      status : {"FULFILLED"} ]

\* POST data of the profile form; 2024-03-05 is later than every instant of
\* the timeline
ProfileInputs ==
    [ date_of_birth : {PyDate(1994, 3, 1)}, blood_group : {"O+"},
      weight : {PyInt(60)},
      last_donation_date : {None, PyDate(2024, 3, 5)},
      is_available_for_donation : BOOLEAN ]

\* passwords typed at log in; every registration of the inputs chooses "pw"
Passwords == {"pw", "wrong"}

RespondInputs == {"", "ACCEPTED"}

\* the arguments and result of the last predicate call: no handler touches them
calls == <<arg_user, arg_request, op, ret>>

\* the requests that passed validation and have not saved yet
handlers_busy == BagCardinality(inflight) + BagCardinality(registering)

\* LoginRequiredMixin of a view whose login_url is users:login
RedirectToLogin == [ t |-> "redirect", to |-> "users:login" ]

\* request.user of a client
request_user(c) == IF session[c] = 0 THEN AnonymousUser ELSE users[session[c]]

\* UserProfile.objects.create(user=instance)
profile_create(profs, pk) ==
    profs \cup { [id |-> Cardinality(profs) + 1, user |-> pk] }

\* mutant of post_save_user: save_user_profile creates a profile on every save
post_save_user_always_create(profs, pk, created) ==
    LET after_create == IF created THEN profile_create(profs, pk) ELSE profs
    IN  profile_create(after_create, pk)

\* the two post_save receivers of User, in the order they are connected
post_save_user(profs, pk, created) ==
    LET after_create == IF created THEN profile_create(profs, pk) ELSE profs
    IN  IF \E p \in after_create : p.user = pk
        THEN after_create
        ELSE profile_create(after_create, pk)

\* UserRegistrationForm: clean_email, clean_first_name, clean_date_of_birth
\* and the required blood group
registration_form_valid(in, t) ==
    LET today == date_of(t)
        dob == in.date_of_birth
        age == today.year - dob.year - (IF month_day_lt(today, dob) THEN 1 ELSE 0)
    IN  /\ ~\E pk \in DOMAIN users : users[pk].email = in.email
        /\ ~\E pk \in DOMAIN users : users[pk].username = in.first_name
        /\ age >= 16 /\ age <= 65
        /\ in.blood_group # ""

\* uuid.uuid4(): a value no earlier call returned
uuid4 == Cardinality(DOMAIN users) + 1

\* mutant of new_user: the user is stored as verified
new_user_verified(in, pk) ==
    [ t |-> "User", id |-> pk, email |-> in.email,
      username |-> in.first_name, password |-> in.password,
      is_active |-> TRUE, is_email_verified |-> TRUE,
      email_verification_token |-> uuid4,
      date_of_birth |-> in.date_of_birth,
      weight |-> in.weight, blood_group |-> in.blood_group,
      is_donor |-> TRUE, is_available_for_donation |-> TRUE,
      last_donation_date |-> None ]

\* the instance UserRegistrationView.form_valid saves: the form's fields,
\* username = first_name, the defaults of the model and the four attributes
\* form_valid sets
new_user(in, pk) ==
    [ t |-> "User", id |-> pk, email |-> in.email,
      username |-> in.first_name, password |-> in.password,
      is_active |-> TRUE, is_email_verified |-> FALSE,
      email_verification_token |-> uuid4,
      date_of_birth |-> in.date_of_birth,
      weight |-> in.weight, blood_group |-> in.blood_group,
      is_donor |-> TRUE, is_available_for_donation |-> TRUE,
      last_donation_date |-> None ]

\* mutant of user_insert_ok: the email column without unique=True
user_insert_without_unique_email(row) ==
    ~\E pk \in DOMAIN users : users[pk].username = row.username

\* INSERT INTO users_user: whether the database takes the row, under the
\* unique email and the unique username of AbstractUser
user_insert_ok(row) ==
    /\ ~\E pk \in DOMAIN users : users[pk].email = row.email
    /\ ~\E pk \in DOMAIN users : users[pk].username = row.username

\* send_mail(..., fail_silently=False): the number of messages sent, or the
\* exception of the mail backend
send_mail(delivered) == IF delivered THEN PyInt(1) ELSE Raise("SMTPException")

RegistrationSuccess == [ t |-> "redirect", to |-> "users:registration_success" ]

\* UserRegistrationView.form_valid after user.save() stored the user: the
\* mail is sent, and only then super().form_valid runs, which saves the same
\* instance again and answers with the redirect; an exception of send_mail
\* leaves form_valid there. The result is the profiles table and the response.
registration_after_save(profs, pk, sent) ==
    LET created == post_save_user(profs, pk, TRUE)
    IN  IF IsRaise(sent)
        THEN [ profiles |-> created, response |-> sent ]
        ELSE [ profiles |-> post_save_user(created, pk, FALSE),
               response |-> RegistrationSuccess ]

\* UserRegistrationView: post, form_valid, handled without another request
\* in between. A valid form stores the user (user.save(), then the mail,
\* then form.save() again through super().form_valid) and redirects to
\* registration_success; an invalid one re-renders the form. The response is
\* not recorded here (RegisterFormValid records it).
Register(in, delivered) ==
    /\ IF registration_form_valid(in, now)
       THEN LET pk == Cardinality(DOMAIN users) + 1
                user == new_user(in, pk)
            IN  /\ users' = users @@ (pk :> user)
                /\ profiles' = registration_after_save(
                                   profiles, pk, send_mail(delivered)).profiles
       ELSE UNCHANGED <<users, profiles>>
    /\ UNCHANGED <<now, calls, requests, responses, request_seq, session, inflight,
                   registering>>

\* UserRegistrationView.post, with other requests handled between validation
\* and save: the form is validated against the table as it is now; a valid
\* one goes on to form_valid, an invalid one is rendered again
RegisterPost(in) ==
    /\ handlers_busy < MaxInflight
    /\ IF registration_form_valid(in, now)
       THEN registering' = registering (+) SetToBag({in})
       ELSE UNCHANGED registering
    /\ UNCHANGED <<now, calls, users, requests, responses, profiles, request_seq,
                   session, inflight>>

\* UserRegistrationView.form_valid: user.save() stores the row, or the
\* database refuses it (IntegrityError); then the mail is sent and
\* super().form_valid saves the same instance again. op and ret record the
\* response, or the exception that leaves the view.
RegisterFormValid(h, delivered) ==
    /\ BagIn(h, registering)
    /\ registering' = registering (-) SetToBag({h})
    /\ op' = "register"
    /\ LET pk == Cardinality(DOMAIN users) + 1
           user == new_user(h, pk)
           after == registration_after_save(profiles, pk, send_mail(delivered))
       IN  IF user_insert_ok(user)
           THEN /\ users' = users @@ (pk :> user)
                /\ profiles' = after.profiles
                /\ ret' = after.response
           ELSE /\ UNCHANGED <<users, profiles>>
                /\ ret' = Raise("IntegrityError")
    /\ UNCHANGED <<now, arg_user, arg_request, requests, responses, request_seq,
                   session, inflight>>

InvalidToken == "Invalid verification token."
AlreadyVerified == "Email already verified."
VerifiedNow == "Email verified successfully! You can now log in."

\* mutant of email_verification: without `if not user.is_email_verified`
email_verification_always_saves(us, token) ==
    LET found == { pk \in DOMAIN us : us[pk].email_verification_token = token }
    IN  IF found = {}
        THEN [ message |-> InvalidToken, saved |-> 0, users |-> us ]
        ELSE LET pk == CHOOSE u \in found : TRUE IN
             [ message |-> VerifiedNow, saved |-> pk,
               users |-> [us EXCEPT ![pk].is_email_verified = TRUE] ]

\* EmailVerificationView.get on the table `us`: the message it reports, the
\* pk of the user it saved (0: none) and the table it leaves
email_verification(us, token) ==
    LET found == { pk \in DOMAIN us : us[pk].email_verification_token = token }
    IN  IF found = {}
        THEN \* User.DoesNotExist
             [ message |-> InvalidToken, saved |-> 0, users |-> us ]
        ELSE LET pk == CHOOSE u \in found : TRUE IN
             IF ~us[pk].is_email_verified
             THEN [ message |-> VerifiedNow, saved |-> pk,
                    users |-> [us EXCEPT ![pk].is_email_verified = TRUE] ]
             ELSE [ message |-> AlreadyVerified, saved |-> 0, users |-> us ]

\* the tokens of the verification links that are followed: those uuid4 hands
\* out, and one no user was given
Tokens == 1..(Cardinality(Emails) + 1)

\* EmailVerificationView.get
VerifyEmail(token) ==
    /\ LET done == email_verification(users, token) IN
          /\ users' = done.users
          /\ profiles' = IF done.saved # 0
                         THEN post_save_user(profiles, done.saved, FALSE)
                         ELSE profiles
    /\ UNCHANGED <<now, calls, requests, responses, request_seq, session, inflight,
                   registering>>

\* django.contrib.auth.authenticate with USERNAME_FIELD = 'email': the pk, or 0
authenticate(email, password) ==
    LET found == { pk \in DOMAIN users :
                     /\ users[pk].email = email
                     /\ users[pk].password = password
                     /\ users[pk].is_active }
    IN  IF found = {} THEN 0 ELSE CHOOSE pk \in found : TRUE

\* UserLoginForm.clean
login_form_valid(email, password) ==
    /\ \E pk \in DOMAIN users :
          /\ users[pk].email = email
          /\ users[pk].is_active
          /\ users[pk].is_email_verified
    /\ authenticate(email, password) # 0

\* mutant of Login: neither the form nor form_valid looks at is_email_verified
Login_unverified(c, email, password) ==
    /\ IF session[c] # 0
       THEN UNCHANGED session
       ELSE LET user == authenticate(email, password) IN
            IF user # 0
            THEN session' = [session EXCEPT ![c] = user]
            ELSE UNCHANGED session
    /\ UNCHANGED <<now, calls, users, requests, responses, profiles, request_seq,
                   inflight, registering>>

\* UserLoginView: dispatch, post, form_valid
Login(c, email, password) ==
    /\ IF session[c] # 0
       THEN \* already authenticated: redirect to the dashboard
            UNCHANGED session
       ELSE IF ~login_form_valid(email, password)
       THEN UNCHANGED session
       ELSE LET user == authenticate(email, password) IN
            IF user # 0 /\ users[user].is_email_verified
            THEN session' = [session EXCEPT ![c] = user]
            ELSE UNCHANGED session
    /\ UNCHANGED <<now, calls, users, requests, responses, profiles, request_seq,
                   inflight, registering>>

\* UserLogoutView.get
Logout(c) ==
    /\ session' = [session EXCEPT ![c] = 0]
    /\ UNCHANGED <<now, calls, users, requests, responses, profiles, request_seq,
                   inflight, registering>>

\* UserProfileForm.clean_last_donation_date: whether the value is accepted
clean_last_donation_date(last_donation, t) ==
    ~(Truthy(last_donation) /\ toordinal(last_donation) > toordinal(date_of(t)))

\* UserProfileForm.save: the fields of Meta.fields are written onto the
\* instance, every other attribute is kept
user_profile_form_save(instance, in) ==
    [ instance EXCEPT !.date_of_birth = in.date_of_birth,
                      !.blood_group = in.blood_group,
                      !.weight = in.weight,
                      !.last_donation_date = in.last_donation_date,
                      !.is_available_for_donation = in.is_available_for_donation ]

\* UserProfileUpdateView: LoginRequiredMixin, get_object, UserProfileForm
EditProfile(c, in) ==
    /\ IF session[c] = 0
       THEN \* redirect to login
            UNCHANGED <<users, profiles>>
       ELSE IF ~clean_last_donation_date(in.last_donation_date, now)
       THEN \* 'Last donation date cannot be in the future.'
            UNCHANGED <<users, profiles>>
       ELSE LET pk == session[c] IN
            /\ users' = [users EXCEPT ![pk] = user_profile_form_save(@, in)]
            /\ profiles' = post_save_user(profiles, pk, FALSE)
    /\ UNCHANGED <<now, calls, requests, responses, request_seq, session, inflight,
                   registering>>

\* update_donation_status: login_required; a POST stores
\* status == 'true' as is_available_for_donation
UpdateDonationStatus(c, method, status) ==
    /\ IF session[c] = 0
       THEN \* redirect to login
            UNCHANGED <<users, profiles>>
       ELSE IF method # "POST"
       THEN \* {'success': False}
            UNCHANGED <<users, profiles>>
       ELSE LET pk == session[c] IN
            /\ users' = [users EXCEPT
                            ![pk].is_available_for_donation = (status = "true")]
            /\ profiles' = post_save_user(profiles, pk, FALSE)
    /\ UNCHANGED <<now, calls, requests, responses, request_seq, session, inflight,
                   registering>>

\* mutant of clean_needed_by_date: needed_by < now instead of <=
clean_needed_by_date_or_now(needed_by, t) ==
    ~(Truthy(needed_by) /\ datetime_gt(t, needed_by))

\* BloodRequestForm.clean_needed_by_date: whether the value is accepted
\* (needed_by <= now raises the ValidationError)
clean_needed_by_date(needed_by, t) ==
    ~(Truthy(needed_by) /\ ~datetime_gt(needed_by, t))

\* mutant of blood_request_form_save: 'status' among Meta.fields
blood_request_form_save_status(instance, in) ==
    [ instance EXCEPT !.blood_group_needed = in.blood_group_needed,
                      !.needed_by_date = in.needed_by_date,
                      !.is_public = in.is_public,
                      !.status = IF in.status = "" THEN @ ELSE in.status ]

\* BloodRequestForm.save: the fields of Meta.fields are written onto the
\* instance, every other attribute (requester, status) is kept
blood_request_form_save(instance, in) ==
    [ instance EXCEPT !.blood_group_needed = in.blood_group_needed,
                      !.needed_by_date = in.needed_by_date,
                      !.is_public = in.is_public ]

\* BloodRequest(): the instance of a create form, with the defaults of the model
new_blood_request(pk, requester) ==
    [ id |-> pk, requester |-> requester, blood_group_needed |-> "",
      status |-> "ACTIVE", needed_by_date |-> None, is_public |-> TRUE ]

\* BloodRequestCreateView: LoginRequiredMixin, BloodRequestForm, form_valid
CreateRequest(c, in) ==
    /\ request_seq < MaxRequests
    /\ IF session[c] = 0
       THEN \* redirect to login
            UNCHANGED <<requests, request_seq>>
       ELSE IF ~clean_needed_by_date(in.needed_by_date, now)
       THEN \* 'The needed by date must be in the future.'
            UNCHANGED <<requests, request_seq>>
       ELSE LET pk == request_seq + 1 IN
            /\ requests' = requests @@
                  (pk :> blood_request_form_save(
                             new_blood_request(pk, session[c]), in))
            /\ request_seq' = pk
    /\ UNCHANGED <<now, calls, users, responses, profiles, session, inflight,
                   registering>>

\* get_object / get_object_or_404 on a pk that is not in the queryset
Http404 == Raise("Http404")

\* the view goes on to its form
Dispatched == [ t |-> "dispatched" ]

\* mutant of get_queryset: every row of users_blood_request
get_queryset_all(c) == DOMAIN requests

\* BloodRequestUpdateView.get_queryset and BloodRequestDeleteView.get_queryset:
\* the pks of BloodRequest.objects.filter(requester=self.request.user)
get_queryset(c) ==
    { pk \in DOMAIN requests : requests[pk].requester = session[c] }

\* what the update and the delete view answer before they look at the form:
\* LoginRequiredMixin, then get_object over get_queryset
request_edit_dispatch(c, pk) ==
    IF session[c] = 0
    THEN RedirectToLogin
    ELSE IF pk \notin get_queryset(c)
    THEN Http404
    ELSE Dispatched

\* BloodRequestUpdateView: LoginRequiredMixin, get_queryset, BloodRequestForm
UpdateRequest(c, pk, in) ==
    /\ IF request_edit_dispatch(c, pk) # Dispatched
       THEN \* redirect to login, or 404
            UNCHANGED requests
       ELSE IF ~clean_needed_by_date(in.needed_by_date, now)
       THEN \* 'The needed by date must be in the future.'
            UNCHANGED requests
       ELSE requests' = [requests EXCEPT ![pk] = blood_request_form_save(@, in)]
    /\ UNCHANGED <<now, calls, users, responses, profiles, request_seq, session,
                   inflight, registering>>

\* BloodRequestDeleteView: LoginRequiredMixin, get_queryset, post; the rows of
\* users_blood_request_response go with the request (on_delete=CASCADE)
DeleteRequest(c, pk) ==
    /\ IF request_edit_dispatch(c, pk) # Dispatched
       THEN \* redirect to login, or 404
            UNCHANGED <<requests, responses>>
       ELSE /\ requests' = [k \in DOMAIN requests \ {pk} |-> requests[k]]
            /\ responses' = { r \in responses : r.blood_request # pk }
    /\ UNCHANGED <<now, calls, users, profiles, request_seq, session, inflight,
                   registering>>

\* mutant of response_insert_ok: the table without unique_together
response_insert_without_unique(row) ==
    /\ row.blood_request \in DOMAIN requests
    /\ row.donor \in DOMAIN users

\* INSERT INTO users_blood_request_response: whether the database takes the
\* row, under the foreign keys to request and donor and unique_together
\* (blood_request, donor)
response_insert_ok(row) ==
    /\ row.blood_request \in DOMAIN requests
    /\ row.donor \in DOMAIN users
    /\ ~\E r \in responses :
          r.blood_request = row.blood_request /\ r.donor = row.donor

next_response_id ==
    IF responses = {} THEN 1
    ELSE 1 + CHOOSE m \in { r.id : r \in responses } :
                \A r \in responses : r.id <= m

NotFound == "404"
RedirectToDetail == "redirect users:blood_request_detail"
ToFormView == "super().dispatch"

\* mutant of respond_dispatch: can_accept is not asked, only the login
respond_dispatch_any_user(c, pk) ==
    IF pk \notin DOMAIN requests
    THEN NotFound
    ELSE LET user == request_user(c) IN
         IF ~is_authenticated(user)
         THEN RedirectToDetail
         ELSE IF \E r \in responses : r.blood_request = pk /\ r.donor = user.id
         THEN RedirectToDetail
         ELSE ToFormView

\* BloodRequestResponseCreateView.dispatch: the response it returns, or
\* ToFormView when it hands the request on to the form view
respond_dispatch(c, pk) ==
    IF pk \notin DOMAIN requests
    THEN \* get_object_or_404
         NotFound
    ELSE LET user == request_user(c) IN
         IF ~Truthy(can_accept(requests[pk], user, now))
         THEN \* 'You cannot respond to this blood request.'
              RedirectToDetail
         ELSE IF \E r \in responses : r.blood_request = pk /\ r.donor = user.id
         THEN \* 'You have already responded to this request.'
              RedirectToDetail
         ELSE ToFormView

\* BloodRequestResponseCreateView.dispatch and the form's validation: a
\* submission that passes dispatch with a valid form goes on to form_valid;
\* an invalid form is rendered again
RespondDispatch(c, pk, choice) ==
    /\ handlers_busy < MaxInflight
    /\ IF respond_dispatch(c, pk) = ToFormView /\ choice \in RESPONSE_CHOICES
       THEN inflight' = inflight (+) SetToBag(
                { [blood_request |-> pk, donor |-> request_user(c).id,
                   response |-> choice] })
       ELSE UNCHANGED inflight
    /\ UNCHANGED <<now, calls, users, requests, responses, profiles, request_seq,
                   session, registering>>

\* BloodRequestResponseCreateView.form_valid: the row is saved, or the
\* database refuses it (IntegrityError)
RespondSave(h) ==
    /\ BagIn(h, inflight)
    /\ inflight' = inflight (-) SetToBag({h})
    /\ LET row == [ id |-> next_response_id, blood_request |-> h.blood_request,
                    donor |-> h.donor, response |-> h.response ]
       IN  IF response_insert_ok(row)
           THEN responses' = responses \cup {row}
           ELSE UNCHANGED responses
    /\ UNCHANGED <<now, calls, users, requests, profiles, request_seq, session,
                   registering>>

\* time passes
Tick ==
    /\ \E i \in 1..(Len(Timeline) - 1) : now = Timeline[i] /\ now' = Timeline[i + 1]
    /\ UNCHANGED <<calls, tables>>

Init ==
    /\ now = Timeline[1]
    /\ arg_user = None
    /\ arg_request = None
    /\ op = "none"
    /\ ret = None
    /\ EmptyTables
    /\ session = [c \in Clients |-> 0]
    /\ inflight = EmptyBag
    /\ registering = EmptyBag

Next ==
    \/ \E in \in RegistrationInputs, delivered \in BOOLEAN :
          Register(in, delivered)
    \/ \E token \in Tokens : VerifyEmail(token)
    \/ \E c \in Clients, email \in Emails, password \in Passwords :
          Login(c, email, password)
    \/ \E c \in Clients : Logout(c)
    \/ \E c \in Clients, in \in ProfileInputs : EditProfile(c, in)
    \/ \E c \in Clients, method \in {"GET", "POST"}, status \in {"true", "false"} :
          UpdateDonationStatus(c, method, status)
    \/ \E c \in Clients, in \in RequestInputs : CreateRequest(c, in)
    \/ \E c \in Clients, pk \in 1..MaxRequests, in \in RequestInputs :
          UpdateRequest(c, pk, in)
    \/ \E c \in Clients, pk \in 1..MaxRequests : DeleteRequest(c, pk)
    \/ \E c \in Clients, pk \in 1..MaxRequests, choice \in RespondInputs :
          RespondDispatch(c, pk, choice)
    \/ \E h \in BagToSet(inflight) : RespondSave(h)
    \/ Tick

Spec == Init /\ [][Next]_vars

-----------------------------------------------------------------------------
(* The account handlers alone, with registrations that overlap: several     *)
(* registration requests may be between validation and save at once.        *)

AccountNext ==
    \/ \E in \in RegistrationInputs : RegisterPost(in)
    \/ \E h \in BagToSet(registering), delivered \in BOOLEAN :
          RegisterFormValid(h, delivered)
    \/ \E token \in Tokens : VerifyEmail(token)
    \/ \E c \in Clients, email \in Emails, password \in Passwords :
          Login(c, email, password)
    \/ \E c \in Clients : Logout(c)
    \/ \E c \in Clients, in \in ProfileInputs : EditProfile(c, in)
    \/ \E c \in Clients, method \in {"GET", "POST"}, status \in {"true", "false"} :
          UpdateDonationStatus(c, method, status)

AccountSpec == Init /\ [][AccountNext]_vars

-----------------------------------------------------------------------------
(* The read-only operations, over every state of small tables               *)

\* DashboardView.get_context_data: the pks of context['available_requests']
\* (the view shows the five newest of them)
available_requests(user) ==
    { pk \in DOMAIN requests :
        /\ requests[pk].status = "ACTIVE"
        /\ requests[pk].is_public
        /\ requests[pk].requester # user.id
        /\ requests[pk].blood_group_needed = user.blood_group }

\* rows of users_user of verified donors: what registration, verification and
\* the profile form can leave in the columns the predicates read
QueryRows ==
    [ t : {"User"}, date_of_birth : {PyDate(1994, 3, 1)},
      weight : {PyInt(49), PyInt(60)}, blood_group : {"O+", "A-"},
      is_donor : {TRUE}, is_available_for_donation : BOOLEAN,
      is_email_verified : {TRUE}, last_donation_date : {None} ]

QueryInit ==
    /\ now \in { Timeline[i] : i \in 1..Len(Timeline) }
    /\ \E rows \in [1..TableUsers -> QueryRows] :
          users = [pk \in 1..TableUsers |-> WithId(rows[pk], pk)]
    /\ \E r \in 1..TableUsers, st \in {"ACTIVE", "FULFILLED"}, pub \in BOOLEAN :
          requests = (1 :> [ id |-> 1, requester |-> r,
                             blood_group_needed |-> "O+", status |-> st,
                             needed_by_date |-> Deadline, is_public |-> pub ])
    /\ session \in [Clients -> 0..TableUsers]
    /\ \E c \in Clients : arg_user = request_user(c)
    /\ arg_request = requests[1]
    /\ op = "none"
    /\ ret = None
    /\ responses = {}
    /\ profiles = {}
    /\ request_seq = 1
    /\ inflight = EmptyBag
    /\ registering = EmptyBag

\* DashboardView: LoginRequiredMixin, get_context_data
CallDashboard(c) ==
    /\ op' = "dashboard"
    /\ arg_user' = request_user(c)
    /\ ret' = IF session[c] = 0
              THEN RedirectToLogin
              ELSE [ t |-> "context",
                     my_requests |->
                         { pk \in DOMAIN requests :
                             requests[pk].requester = session[c] },
                     available_requests |-> available_requests(request_user(c)),
                     my_responses |->
                         { r \in responses : r.donor = session[c] } ]
    /\ UNCHANGED <<now, arg_request, tables>>

QueryNext ==
    \/ CallGetAge
    \/ CallCanDonate
    \/ CallIsEligibleDonor
    \/ CallIsExpired
    \/ CallCanAccept
    \/ CallGetCompatibleDonors
    \/ \E c \in Clients : CallDashboard(c)

QuerySpec == QueryInit /\ [][QueryNext]_vars

-----------------------------------------------------------------------------
(* Properties of the tables, under Spec *)

\* C10: whatever the interleaving of respond submissions, also when two
\* submissions of one donor to one request both passed the 'already
\* responded' check before either saved, there is at most one response per
\* (blood_request, donor) pair, and every response belongs to one request of
\* the table.
C10_OneResponsePerPair ==
    /\ \A r1, r2 \in responses :
          r1.blood_request = r2.blood_request /\ r1.donor = r2.donor => r1 = r2
    /\ \A r \in responses : r.blood_request \in DOMAIN requests

\* two submissions passed dispatch before either saved; the first one's row is
\* stored and the second is about to be saved
C10_Witness ==
    \E r \in responses, h \in BagToSet(inflight) :
        /\ r.blood_request \in DOMAIN requests
        /\ h.blood_request = r.blood_request
        /\ h.donor = r.donor

-----------------------------------------------------------------------------
(* Properties of the accounts, under AccountSpec *)

\* a stored user holds the email
EmailTaken(email) == \E pk \in DOMAIN users : users[pk].email = email

\* C11: whatever the interleaving of registrations, also when two
\* registrations with one email both passed validation before either saved,
\* no two users have the same email; and a registration whose email a stored
\* user holds is rejected, by the form or by the database, and leaves the
\* users as they are.
C11_EmailUnique ==
    /\ [](\A p, q \in DOMAIN users : users[p].email = users[q].email => p = q)
    /\ [][ /\ \A in \in RegistrationInputs :
                 RegisterPost(in) /\ EmailTaken(in.email)
                    => /\ ~registration_form_valid(in, now)
                       /\ UNCHANGED <<users, registering>>
           /\ \A h \in BagToSet(registering), delivered \in BOOLEAN :
                 RegisterFormValid(h, delivered) /\ EmailTaken(h.email)
                    => /\ ~user_insert_ok(new_user(h, 0))
                       /\ UNCHANGED users ]_vars

\* two registrations with one email and different first names passed
\* validation; the first one's user is stored and the second is about to save
C11_Witness ==
    \E pk \in DOMAIN users, h \in BagToSet(registering) :
        /\ users[pk].email = h.email
        /\ users[pk].username # h.first_name

\* C12: after any sequence of user creations and user saves every user has
\* exactly one UserProfile and every UserProfile belongs to one user of the
\* table: the creation of the user creates the profile, and the later saves
\* (the second save of registration, verification, profile edit,
\* availability toggle) create no second one.
C12_OneProfilePerUser ==
    /\ \A pk \in DOMAIN users :
          Cardinality({ p \in profiles : p.user = pk }) = 1
    /\ \A p \in profiles : p.user \in DOMAIN users
    /\ \A p, q \in profiles : p.id = q.id => p = q

\* a user who was created, then saved by the verification and by the
\* availability toggle
C12_Witness ==
    \E pk \in DOMAIN users :
        /\ users[pk].is_email_verified
        /\ ~users[pk].is_available_for_donation
        /\ Cardinality({ p \in profiles : p.user = pk }) = 1

-----------------------------------------------------------------------------
(* Properties of the handlers, under Spec *)

\* C13: a user is created at registration with is_email_verified false, and
\* of all the operations (register, verify email, log in, log out, edit
\* profile, toggle availability, create, update and delete request, respond)
\* the only one after which a user's is_email_verified is true when it was
\* false before is the email verification with that user's own token.
C13_VerifiedOnlyByOwnToken ==
    [][ \A pk \in DOMAIN users' :
          /\ pk \notin DOMAIN users => ~users'[pk].is_email_verified
          /\ ( /\ pk \in DOMAIN users
               /\ ~users[pk].is_email_verified
               /\ users'[pk].is_email_verified )
             => /\ VerifyEmail(users[pk].email_verification_token)
                /\ \A token \in Tokens \ {users[pk].email_verification_token} :
                      ~VerifyEmail(token) ]_vars

\* a verified user is logged in, has edited the profile and has a request,
\* while another registered user is still unverified
C13_Witness ==
    \E p, q \in DOMAIN users, c \in Clients :
        /\ users[p].is_email_verified
        /\ ~users[q].is_email_verified
        /\ session[c] = p
        /\ ~users[p].is_available_for_donation
        /\ \E pk \in DOMAIN requests : requests[pk].requester = p

\* C14: in every reachable state every BloodRequest has a status among
\* ACTIVE, FULFILLED, CANCELLED and EXPIRED, and a request that has just been
\* created has status ACTIVE, whatever the POST data of the form.
C14_StatusInChoices ==
    /\ [](\A pk \in DOMAIN requests : requests[pk].status \in STATUS_CHOICES)
    /\ [][ \A pk \in DOMAIN requests' \ DOMAIN requests :
              requests'[pk].status = "ACTIVE" ]_vars

\* a request created from POST data that names another status; its
\* needed_by_date has passed and it is still ACTIVE
C14_Witness ==
    \E pk \in DOMAIN requests :
        /\ requests[pk].status = "ACTIVE"
        /\ \A in \in RequestInputs : in.status = "FULFILLED"
        /\ datetime_gt(now, requests[pk].needed_by_date)

-----------------------------------------------------------------------------
(* Properties of the read-only operations, under QuerySpec *)

QueryOps == { "get_age", "can_donate", "is_eligible_donor", "is_expired",
              "can_accept", "get_compatible_donors" }

AlreadyResponded(c, pk) ==
    /\ session[c] # 0
    /\ \E r \in responses : r.blood_request = pk /\ r.donor = session[c]

\* C16: a respond submission goes on to be saved only if, at its dispatch,
\* can_accept(request, user) holds and the user has no stored response to the
\* request; when either check fails the answer is the redirect to the
\* request's detail page and no response is created or modified. A response
\* is stored only by the save of such a submission, with the responding user
\* as donor and the addressed request as blood_request.
C16_RespondOnlyWhenAcceptable ==
    /\ [](\A c \in Clients, pk \in DOMAIN requests :
             \/ ~Truthy(can_accept(requests[pk], request_user(c), now))
             \/ AlreadyResponded(c, pk)
             => respond_dispatch(c, pk) = RedirectToDetail)
    /\ [][ inflight' # inflight \/ responses' # responses =>
            /\ \A h \in BagToSet(inflight') :
                  CopiesIn(h, inflight') > CopiesIn(h, inflight) =>
                     /\ h.blood_request \in DOMAIN requests
                     /\ \E c \in Clients :
                           /\ session[c] = h.donor
                           /\ can_accept(requests[h.blood_request],
                                         request_user(c), now) = PyTrue
                           /\ ~AlreadyResponded(c, h.blood_request)
            /\ \A r \in responses' \ responses :
                  \E h \in BagToSet(inflight) :
                     /\ CopiesIn(h, inflight') = CopiesIn(h, inflight) - 1
                     /\ r.blood_request = h.blood_request
                     /\ r.donor = h.donor
                     /\ r.response = h.response
            /\ \A r \in responses :
                  r \in responses' \/ r.blood_request \notin DOMAIN requests'
            /\ \A c \in Clients, pk \in DOMAIN requests :
                  \/ ~Truthy(can_accept(requests[pk], request_user(c), now))
                  \/ AlreadyResponded(c, pk)
                  => \A choice \in RespondInputs :
                        ~RespondDispatch(c, pk, choice) ]_vars

\* a response is stored, of a donor who is not the requester; the same donor
\* is logged in and asks again
C16_Witness ==
    \E r \in responses, c \in Clients :
        /\ r.blood_request \in DOMAIN requests
        /\ requests[r.blood_request].requester # r.donor
        /\ session[c] = r.donor
        /\ AlreadyResponded(c, r.blood_request)
        /\ respond_dispatch(c, r.blood_request) = RedirectToDetail

-----------------------------------------------------------------------------
(* Properties of log in and verification, under AccountSpec *)

\* C17: a session becomes authenticated only by a log in with the email and
\* the password of a stored user who is active and has is_email_verified
\* true; a log in with the email of a user who is not verified leaves the
\* session unauthenticated, also with the correct password.
C17_LoginOnlyVerified ==
    [][ \A c \in Clients :
          /\ (session[c] = 0 /\ session'[c] # 0) =>
                /\ session'[c] \in DOMAIN users
                /\ users[session'[c]].is_active
                /\ users[session'[c]].is_email_verified
                /\ \E email \in Emails, password \in Passwords :
                      /\ Login(c, email, password)
                      /\ users[session'[c]].email = email
                      /\ users[session'[c]].password = password
          /\ \A email \in Emails, password \in Passwords :
                ( /\ Login(c, email, password)
                  /\ session[c] = 0
                  /\ \E pk \in DOMAIN users :
                        users[pk].email = email /\ ~users[pk].is_email_verified )
                => session'[c] = 0 ]_vars

\* a verified user is logged in while another user, whose password is known,
\* is registered and not verified
C17_Witness ==
    \E c \in Clients, p, q \in DOMAIN users :
        /\ session[c] = p
        /\ users[p].is_email_verified
        /\ ~users[q].is_email_verified
        /\ authenticate(users[q].email, "pw") = q
        /\ ~login_form_valid(users[q].email, "pw")

\* the users the token was given to
WithToken(token) ==
    { pk \in DOMAIN users : users[pk].email_verification_token = token }

\* C18: the email verification changes state only when the token is that of
\* an unverified user: then that user's is_email_verified becomes true and
\* nothing else changes; with a token no user has it reports the invalid
\* token and changes nothing; with the token of a verified user it reports
\* 'already verified' and changes nothing; so verifying twice leaves what
\* verifying once leaves.
C18_VerificationIdempotent ==
    /\ [](\A token \in Tokens :
            LET once == email_verification(users, token)
                twice == email_verification(once.users, token)
            IN  /\ twice.users = once.users
                /\ WithToken(token) = {} =>
                      once.message = InvalidToken /\ once.users = users
                /\ \A pk \in WithToken(token) :
                      IF users[pk].is_email_verified
                      THEN /\ once.message = AlreadyVerified
                           /\ once.saved = 0
                           /\ once.users = users
                      ELSE /\ once.message = VerifiedNow
                           /\ once.users =
                                 [users EXCEPT ![pk].is_email_verified = TRUE]
                           /\ twice.message = AlreadyVerified
                           /\ twice.saved = 0)
    /\ [][ \A token \in Tokens :
             VerifyEmail(token) =>
                /\ users' = email_verification(users, token).users
                /\ UNCHANGED <<profiles, requests, responses, session>> ]_vars

\* one user is verified, the other is not: the first one's token is reported
\* as already verified
C18_Witness ==
    \E p, q \in DOMAIN users :
        /\ users[p].is_email_verified
        /\ ~users[q].is_email_verified
        /\ email_verification(users, users[p].email_verification_token).message
              = AlreadyVerified
        /\ email_verification(users, users[q].email_verification_token).message
              = VerifiedNow

-----------------------------------------------------------------------------
(* Properties of the request forms, under Spec *)

\* C19: creating or updating a blood request with a needed_by_date that is
\* not strictly later than the current time is refused by the form's
\* validation and leaves the stored requests as they are; so every request
\* that has just been created or updated is not expired, its needed_by_date
\* being later than now.
C19_NeededByInFuture ==
    /\ [](\A in \in RequestInputs :
             ~datetime_gt(in.needed_by_date, now) =>
                ~clean_needed_by_date(in.needed_by_date, now))
    /\ [][ requests' # requests =>
            /\ \A in \in RequestInputs :
                  ~datetime_gt(in.needed_by_date, now) =>
                     \A c \in Clients :
                        /\ ~CreateRequest(c, in)
                        /\ \A pk \in DOMAIN requests :
                              ~UpdateRequest(c, pk, in)
            /\ \A pk \in DOMAIN requests' :
                  pk \notin DOMAIN requests \/ requests'[pk] # requests[pk]
                     => /\ datetime_gt(requests'[pk].needed_by_date, now')
                        /\ is_expired(requests'[pk], now') = PyFalse ]_vars

\* a stored request, private and for A-, whose needed_by_date is later than
\* now, while a needed_by_date equal to now is among the submitted ones
C19_Witness ==
    \E pk \in DOMAIN requests :
        /\ requests[pk].blood_group_needed = "A-"
        /\ ~requests[pk].is_public
        /\ datetime_gt(requests[pk].needed_by_date, now)
        /\ \E in \in RequestInputs : in.needed_by_date = now

-----------------------------------------------------------------------------
(* Properties of the dashboard, under QuerySpec *)

\* C20: every request the dashboard lists under available_requests for a
\* logged-in user is one the user can respond to: can_accept(request, user)
\* is true at that time (not the user's own, the user's blood group, ACTIVE,
\* not expired, the user an eligible donor).
C20_AvailableRequestsCanBeAccepted ==
    op = "dashboard" /\ ret # RedirectToLogin =>
        \A pk \in ret.available_requests :
            can_accept(requests[pk], arg_user, now) = PyTrue

-----------------------------------------------------------------------------
(* users/views.py: the views that show requests and responses, over every   *)
(* state of small tables. A context is a record of the keys the view puts   *)
(* into it; a list of rows is the set of its rows (the tables here are      *)
(* smaller than every page and slice of the views).                         *)

\* a verified, eligible donor row of users_user
ViewUser(pk) ==
    [ t |-> "User", id |-> pk, date_of_birth |-> PyDate(1994, 3, 1),
      weight |-> PyInt(60), blood_group |-> "O+", is_donor |-> TRUE,
      is_available_for_donation |-> TRUE, is_email_verified |-> TRUE,
      last_donation_date |-> None ]

\* rows of users_blood_request, before their pk
ViewRequestRows ==
    [ requester : 1..TableUsers, blood_group_needed : {"O+"},
      status : {"ACTIVE", "FULFILLED"}, needed_by_date : {Deadline},
      is_public : BOOLEAN ]

\* the row of users_blood_request_response of donor d to request pk
ViewResponse(pk, d) ==
    [ id |-> (pk - 1) * TableUsers + d, blood_request |-> pk, donor |-> d,
      response |-> "ACCEPTED" ]

\* the tables as the handlers can leave them: verified users with their
\* profiles, requests of these users, at most one response of a user to a
\* request, none of them by the requester
ViewInit ==
    /\ now = Timeline[1]
    /\ users = [pk \in 1..TableUsers |-> ViewUser(pk)]
    /\ profiles = { [id |-> pk, user |-> pk] : pk \in 1..TableUsers }
    /\ \E rows \in [1..MaxRequests -> ViewRequestRows] :
          requests = [pk \in 1..MaxRequests |-> WithId(rows[pk], pk)]
    /\ request_seq = MaxRequests
    /\ \E pairs \in SUBSET { p \in (1..MaxRequests) \X (1..TableUsers) :
                               p[2] # requests[p[1]].requester } :
          responses = { ViewResponse(p[1], p[2]) : p \in pairs }
    /\ session \in [Clients -> 0..TableUsers]
    /\ arg_user = None
    /\ arg_request = None
    /\ op = "none"
    /\ ret = None
    /\ inflight = EmptyBag
    /\ registering = EmptyBag

\* HomeView.get_context_data
CallHome(c) ==
    /\ op' = "home"
    /\ arg_user' = request_user(c)
    /\ ret' = [ t |-> "context",
                recent_requests |->
                    { pk \in DOMAIN requests :
                        requests[pk].status = "ACTIVE" /\ requests[pk].is_public },
                total_users |->
                    Cardinality({ pk \in DOMAIN users :
                                    users[pk].is_email_verified }),
                active_requests |->
                    Cardinality({ pk \in DOMAIN requests :
                                    requests[pk].status = "ACTIVE" }) ]
    /\ UNCHANGED <<now, arg_request, tables>>

\* BloodRequestListView.get_queryset, with the blood_group filter of the
\* query string ('' when it is not given)
CallBloodRequestList(c, blood_group) ==
    /\ op' = "blood_request_list"
    /\ arg_user' = request_user(c)
    /\ ret' = [ t |-> "context",
                blood_requests |->
                    { pk \in DOMAIN requests :
                        /\ requests[pk].status = "ACTIVE"
                        /\ requests[pk].is_public
                        /\ blood_group # "" =>
                              requests[pk].blood_group_needed = blood_group } ]
    /\ UNCHANGED <<now, arg_request, tables>>

\* BloodRequestDetailView: get_object over BloodRequest.objects.all(), then
\* get_context_data
CallBloodRequestDetail(c, pk) ==
    /\ op' = "blood_request_detail"
    /\ arg_user' = request_user(c)
    /\ ret' =
         IF pk \notin DOMAIN requests
         THEN Http404
         ELSE LET user == request_user(c)
                  blood_request == requests[pk]
                  own == { r \in responses :
                             r.blood_request = pk /\ r.donor = user.id }
                  user_response == IF own = {} THEN None
                                   ELSE CHOOSE r \in own : TRUE
              IN  IF ~is_authenticated(user)
                  THEN [ t |-> "context", blood_request |-> pk ]
                  ELSE IF user.id # blood_request.requester
                  THEN [ t |-> "context", blood_request |-> pk,
                         can_respond |-> can_accept(blood_request, user, now),
                         user_response |-> user_response ]
                  ELSE [ t |-> "context", blood_request |-> pk,
                         can_respond |-> can_accept(blood_request, user, now),
                         user_response |-> user_response,
                         responses |-> { r \in responses :
                                           r.blood_request = pk } ]
    /\ UNCHANGED <<now, arg_request, tables>>

\* BloodRequestResponseListView.get_queryset, with the response filter of
\* the query string ('' when it is not given)
CallBloodRequestResponseList(c, response_status) ==
    /\ op' = "blood_request_response_list"
    /\ arg_user' = request_user(c)
    /\ ret' = [ t |-> "context",
                responses |->
                    { r \in responses :
                        response_status # "" => r.response = response_status } ]
    /\ UNCHANGED <<now, arg_request, tables>>

\* MyBloodRequestsView: LoginRequiredMixin, get_queryset
CallMyBloodRequests(c) ==
    /\ op' = "my_blood_requests"
    /\ arg_user' = request_user(c)
    /\ ret' = IF session[c] = 0
              THEN RedirectToLogin
              ELSE [ t |-> "context",
                     blood_requests |->
                         { pk \in DOMAIN requests :
                             requests[pk].requester = session[c] } ]
    /\ UNCHANGED <<now, arg_request, tables>>

\* MyResponsesView: LoginRequiredMixin, get_queryset
CallMyResponses(c) ==
    /\ op' = "my_blood_responses"
    /\ arg_user' = request_user(c)
    /\ ret' = IF session[c] = 0
              THEN RedirectToLogin
              ELSE [ t |-> "context",
                     responses |-> { r \in responses : r.donor = session[c] } ]
    /\ UNCHANGED <<now, arg_request, tables>>

ViewNext ==
    \/ \E c \in Clients : CallHome(c)
    \/ \E c \in Clients, blood_group \in {"", "O+", "A-"} :
          CallBloodRequestList(c, blood_group)
    \/ \E c \in Clients, pk \in 1..(MaxRequests + 1) : CallBloodRequestDetail(c, pk)
    \/ \E c \in Clients, response_status \in {"", "DECLINED"} :
          CallBloodRequestResponseList(c, response_status)
    \/ \E c \in Clients : CallMyBloodRequests(c)
    \/ \E c \in Clients : CallMyResponses(c)
    \/ \E c \in Clients : CallDashboard(c)

ViewSpec == ViewInit /\ [][ViewNext]_vars

-----------------------------------------------------------------------------
(* Properties of the views, under ViewSpec *)

\* the last operation rendered a context for request.user (arg_user)
Rendered == ret.t = "context"

\* the rows of users_blood_request_response in the context rendered last
ResponsesShown ==
    IF ~Rendered THEN {}
    ELSE CASE op = "blood_request_detail" ->
                 (IF "responses" \in DOMAIN ret THEN ret.responses ELSE {})
                 \cup (IF "user_response" \in DOMAIN ret
                          /\ ret.user_response # None
                       THEN {ret.user_response} ELSE {})
           [] op \in {"blood_request_response_list", "my_blood_responses"} ->
                 ret.responses
           [] op = "dashboard" -> ret.my_responses
           [] OTHER -> {}

\* C21: every BloodRequestResponse a view shows is shown to a logged-in user
\* who is the requester of the response's request or the donor who wrote it.
C21_ResponsesOnlyToRequesterOrDonor ==
    \A r \in ResponsesShown :
        /\ is_authenticated(arg_user)
        /\ \/ arg_user.id = requests[r.blood_request].requester
           \/ arg_user.id = r.donor

\* the pks of the rows of users_blood_request in the context rendered last
RequestsShown ==
    IF ~Rendered THEN {}
    ELSE CASE op = "home" -> ret.recent_requests
           [] op \in {"blood_request_list", "my_blood_requests"} ->
                 ret.blood_requests
           [] op = "blood_request_detail" -> {ret.blood_request}
           [] op = "dashboard" -> ret.my_requests \cup ret.available_requests
           [] OTHER -> {}

\* C22: every blood request a view shows (home page, request list, dashboard,
\* request detail page) is public or is shown to its requester, logged in.
C22_PrivateRequestOnlyToRequester ==
    \A pk \in RequestsShown :
        \/ requests[pk].is_public
        \/ /\ is_authenticated(arg_user)
           /\ arg_user.id = requests[pk].requester

-----------------------------------------------------------------------------
(* Properties of registration, under AccountSpec *)

\* C23: a registration whose user the database takes answers with the
\* redirect to registration_success and leaves the user stored and unverified,
\* whether the mail sender delivers the verification mail or fails.
C23_MailFailureDoesNotFailRegistration ==
    [][ \A h \in BagToSet(registering), delivered \in BOOLEAN :
           RegisterFormValid(h, delivered) /\ user_insert_ok(new_user(h, 0)) =>
              /\ ret' = RegistrationSuccess
              /\ \E pk \in DOMAIN users' \ DOMAIN users :
                    /\ users'[pk].email = h.email
                    /\ ~users'[pk].is_email_verified ]_vars

-----------------------------------------------------------------------------
(* Properties of the requests and responses, under Spec *)

\* C24: an update or delete of a blood request asked by a visitor is
\* answered with the redirect to login, and one asked by a logged-in user
\* who is not the request's requester with 404; both leave every request and
\* every response as they are, so a request changes or goes only while its
\* requester is logged in. A new request has the logged-in user who created
\* it as requester, and no step changes the requester of a stored request.
C24_OnlyRequesterEdits ==
    /\ [](\A c \in Clients, pk \in DOMAIN requests :
             /\ session[c] = 0 => request_edit_dispatch(c, pk) = RedirectToLogin
             /\ session[c] # 0 /\ session[c] # requests[pk].requester =>
                   request_edit_dispatch(c, pk) = Http404)
    /\ [][ requests' # requests \/ responses' # responses =>
           /\ \A c \in Clients, pk \in DOMAIN requests :
                 session[c] # requests[pk].requester =>
                    /\ ~DeleteRequest(c, pk)
                    /\ \A in \in RequestInputs : ~UpdateRequest(c, pk, in)
           /\ \A pk \in DOMAIN requests :
                 pk \notin DOMAIN requests' \/ requests'[pk] # requests[pk] =>
                    \E c \in Clients : session[c] = requests[pk].requester
           /\ \A pk \in DOMAIN requests' \ DOMAIN requests :
                 \E c \in Clients :
                    session[c] # 0 /\ requests'[pk].requester = session[c]
           /\ \A pk \in DOMAIN requests \cap DOMAIN requests' :
                 requests'[pk].requester = requests[pk].requester ]_vars

\* a private request with a response is stored while a user other than its
\* requester is logged in, to whom update and delete answer 404
C24_Witness ==
    \E c \in Clients, pk \in DOMAIN requests :
        /\ session[c] # 0
        /\ session[c] # requests[pk].requester
        /\ ~requests[pk].is_public
        /\ \E r \in responses : r.blood_request = pk
        /\ request_edit_dispatch(c, pk) = Http404

\* C25: in every state the handlers reach, each stored response belongs to a
\* stored request and its donor is not the requester of that request.
C25_NoResponseToOwnRequest ==
    \A r \in responses :
        /\ r.blood_request \in DOMAIN requests
        /\ r.donor # requests[r.blood_request].requester

\* a request has a response of another user, and its requester, logged in,
\* is refused at respond
C25_Witness ==
    \E r \in responses, c \in Clients :
        /\ session[c] = requests[r.blood_request].requester
        /\ r.donor # session[c]
        /\ is_eligible_donor(request_user(c), now) = PyTrue
        /\ respond_dispatch(c, r.blood_request) = RedirectToDetail

=============================================================================
